---- MODULE Spec2Model ----
(***************************************************************************)
(* A model of RAGService (app/services/rag_service.py): the request        *)
(* orchestration of the five public entry points, the scheme retriever    *)
(* with its static fallback, and the two fallback chains of the form-help  *)
(* paths.  One invocation runs at a time (the service keeps no state       *)
(* between requests); the scheme backend, the text model, the vision model *)
(* and the image library are the environment, whose outcome is chosen at   *)
(* the step that calls them.                                               *)
(*                                                                         *)
(* Python values are records [t, v]: t is the type tag, v the payload.     *)
(* A str is a sequence of tokens.  Text that the code slices, replaces or  *)
(* title-cases is kept one character per token; a literal fragment of a    *)
(* template is one token.                                                  *)
(***************************************************************************)
EXTENDS Integers, Sequences, FiniteSets, TLC

VARIABLES
  pc,                \* position of the running invocation
  op,                \* the public entry point that was called
  args,              \* its arguments
  relevant_schemes,  \* search_schemes: the retriever's context text
  image,             \* analyze_form_image_directly: the decoded image
  prompt,            \* the prompt of the latest model call
  result,            \* what the caller gets: a return value or an exception
  calls,             \* the outbound calls of this invocation, in order
  attempts,          \* the fallback tiers attempted, in order, with outcome
  backendOutcome,    \* what the scheme backend did in this invocation
  excSource          \* where the exception handled by the image path arose

vars == <<pc, op, args, relevant_schemes, image, prompt, result, calls,
          attempts, backendOutcome, excSource>>

\* ------------------------------------------------------------------ bounds

\* Longest scheme list the backend returns in the model.
MaxSchemes == 6
\* Longest detected_fields list a caller passes in the model.
MaxFields == 2

\* --------------------------------------------------------- program constants

TopSchemes == 5
OverviewBudget == 200
EligibilityBudget == 150
BenefitsBudget == 150
DocumentsBudget == 100
ExtractedTextBudget == 500
HttpOk == 200

\* ------------------------------------------------------------ Python values

None == [t |-> "None", v |-> <<>>]
Str(s) == [t |-> "str", v |-> s]
List(l) == [t |-> "list", v |-> l]
Dict(d) == [t |-> "dict", v |-> d]
Bytes(b) == [t |-> "bytes", v |-> b]

IsStr(x) == x.t = "str"

Min(a, b) == IF a < b THEN a ELSE b

\* s[:n] on a sequence (a str or a list).
Take(s, n) == SubSeq(s, 1, Min(n, Len(s)))

\* n copies of the character c.
Rep(c, n) == [i \in 1..n |-> c]

\* sep.join(parts)
RECURSIVE Join(_, _)
Join(parts, sep) ==
  IF Len(parts) = 0 THEN <<>>
  ELSE IF Len(parts) = 1 THEN parts[1]
  ELSE parts[1] \o sep \o Join(Tail(parts), sep)

\* The outcome of evaluating an expression: a value, or an exception.
Value(x) == [k |-> "value", v |-> x]
Raised(e) == [k |-> "raise", v |-> Str(<<e>>)]
IsRaised(r) == r.k = "raise"

\* str(x) as an f-string renders it; the model renders None and str only.
Format(x) == IF x.t = "None" THEN <<"None">> ELSE x.v

\* d.get(key, default)
DictGet(d, key, default) ==
  IF key \in DOMAIN d.v THEN d.v[key] ELSE default

\* x[:n]: a TypeError unless x is a sequence type.
Slice(x, n) ==
  IF x.t \in {"str", "list", "bytes"} THEN Value([t |-> x.t, v |-> Take(x.v, n)])
  ELSE Raised("TypeError")

\* ------------------------------------------------- knowledge base provider

\* _get_basic_schemes_data: the static catalog, one token.
BasicSchemesData ==
  <<"PM-KISAN: Rs 6,000/year for farmers ... TIPS FOR FORM FILLING ... Verify all information before submission">>

\* _get_government_services_context: the static services text, one token.
GovernmentServicesContext ==
  <<"INSURANCE SERVICES: ... SOCIAL WELFARE: ... Senior citizen benefits">>

\* The literal returned for an empty scheme list.
NoSchemesFound == <<"No specific schemes found for this query.">>

\* --------------------------------------------------------- scheme retriever

NA == Str(<<"N", "/", "A">>)

SchemeLabel == "\n            Scheme: "
OverviewLabel == "\n            Overview: "
EligibilityLabel == "...\n            Eligibility: "
BenefitsLabel == "...\n            Benefits: "
DocumentsLabel == "...\n            Documents: "
EntryEnd == "...\n            "

\* The f-string of one scheme (lines 247-253): the name as it is, the other
\* four fields sliced.  A scheme that is no mapping has no .get, and a field
\* that is no sequence cannot be sliced.
FormatEntry(scheme) ==
  IF scheme.t # "dict" THEN Raised("AttributeError")
  ELSE
    LET name == DictGet(scheme, "name", NA)
        overview == Slice(DictGet(scheme, "overview", NA), OverviewBudget)
        eligibility == Slice(DictGet(scheme, "eligibility", NA), EligibilityBudget)
        benefits == Slice(DictGet(scheme, "benefits", NA), BenefitsBudget)
        documents == Slice(DictGet(scheme, "documents", NA), DocumentsBudget)
    IN IF IsRaised(overview) \/ IsRaised(eligibility) \/ IsRaised(benefits)
          \/ IsRaised(documents)
       THEN Raised("TypeError")
       ELSE Value(Str(<<SchemeLabel>> \o Format(name)
                  \o <<OverviewLabel>> \o Format(overview.v)
                  \o <<EligibilityLabel>> \o Format(eligibility.v)
                  \o <<BenefitsLabel>> \o Format(benefits.v)
                  \o <<DocumentsLabel>> \o Format(documents.v)
                  \o <<EntryEnd>>))

\* A formatter that renders every record of the list.
TopOfUnlimited(schemes) == schemes

\* schemes[:5] (line 246)
TopOf(schemes) == Take(schemes, TopSchemes)

\* _format_schemes_for_context
FormatSchemesForContext(schemes) ==
  IF schemes.t = "None" \/ (schemes.t = "list" /\ Len(schemes.v) = 0)
  THEN Value(Str(NoSchemesFound))
  ELSE
    LET top == TopOf(schemes.v)
        formatted == [i \in 1..Len(top) |-> FormatEntry(top[i])]
    IN IF \E i \in 1..Len(top) : IsRaised(formatted[i])
       THEN formatted[CHOOSE i \in 1..Len(top) :
                        /\ IsRaised(formatted[i])
                        /\ \A j \in 1..(i - 1) : ~IsRaised(formatted[j])]
       ELSE Value(Str(Join([i \in 1..Len(top) |-> formatted[i].v.v], <<"\n">>)))

\* What the try block of _get_vectorized_schemes (lines 226-233) yields: the
\* formatted context, an exception, or nothing when the status is not 200.
NoReturn == [k |-> "none", v |-> None]

\* A retriever that formats only a non-empty list and otherwise falls
\* through to the static catalog.
TryVectorSearchNonEmpty(resp) ==
  IF resp.kind = "error" THEN Raised(resp.exc)
  ELSE IF resp.status = HttpOk
  THEN IF IsRaised(resp.body) THEN resp.body
       ELSE IF resp.body.v.t # "dict" THEN Raised("AttributeError")
       ELSE IF DictGet(resp.body.v, "schemes", List(<<>>)) = List(<<>>)
       THEN NoReturn
       ELSE FormatSchemesForContext(DictGet(resp.body.v, "schemes", List(<<>>)))
  ELSE NoReturn

TryVectorSearch(resp) ==
  IF resp.kind = "error" THEN Raised(resp.exc)
  ELSE IF resp.status = HttpOk
  THEN IF IsRaised(resp.body) THEN resp.body
       ELSE IF resp.body.v.t # "dict" THEN Raised("AttributeError")
       ELSE FormatSchemesForContext(DictGet(resp.body.v, "schemes", List(<<>>)))
  ELSE NoReturn

\* A retriever whose handler catches transport errors only.
GetVectorizedSchemesTransportOnly(resp) ==
  LET r == TryVectorSearch(resp)
  IN IF r.k = "value" \/ (IsRaised(r) /\ resp.kind # "error") THEN r
     ELSE Value(Str(BasicSchemesData))

\* _get_vectorized_schemes: an exception of the try block is caught (line
\* 234) and, like a status other than 200, ends in the static catalog.
GetVectorizedSchemes(resp) ==
  LET r == TryVectorSearch(resp)
  IN IF r.k = "value" THEN r ELSE Value(Str(BasicSchemesData))

\* ------------------------------------------------------------- environment

\* A scheme record of the backend: record i of a list, in one of the shapes
\* a response can take.  Names differ by position, so order is observable.
SchemeName(i) == Str(<<"S">> \o Rep("x", i))

SchemeRecord(i, variant) ==
  CASE variant = "short" ->
         Dict([name |-> SchemeName(i), overview |-> Str(Rep("o", i)),
               eligibility |-> Str(Rep("e", i)), benefits |-> Str(Rep("b", i)),
               documents |-> Str(Rep("d", i))])
    [] variant = "exact" ->
         Dict([name |-> SchemeName(i),
               overview |-> Str(Rep("o", OverviewBudget)),
               eligibility |-> Str(Rep("e", EligibilityBudget)),
               benefits |-> Str(Rep("b", BenefitsBudget)),
               documents |-> Str(Rep("d", DocumentsBudget))])
    [] variant = "long" ->
         Dict([name |-> Str(Rep("n", OverviewBudget + i)),
               overview |-> Str(Rep("o", OverviewBudget + i)),
               eligibility |-> Str(Rep("e", EligibilityBudget + i)),
               benefits |-> Str(Rep("b", BenefitsBudget + i)),
               documents |-> Str(Rep("d", DocumentsBudget + i))])
    [] variant = "sparse" ->
         IF i % 2 = 1 THEN Dict([name |-> SchemeName(i)])
         ELSE Dict([overview |-> Str(Rep("o", OverviewBudget + i))])
    [] variant = "nullfirst" ->
         IF i = 1 THEN Dict([name |-> SchemeName(i), overview |-> None])
         ELSE Dict([name |-> SchemeName(i)])
    [] variant = "nullthird" ->
         Dict([name |-> SchemeName(i),
               documents |-> IF i = 3 THEN None ELSE Str(Rep("d", i))])
    [] variant = "nullsixth" ->
         Dict([name |-> SchemeName(i),
               benefits |-> IF i = TopSchemes + 1 THEN None ELSE Str(Rep("b", i))])
    [] OTHER ->
         IF i = 2 THEN Str(<<"P", "M">>) ELSE Dict([name |-> SchemeName(i)])

Variants ==
  <<"short", "exact", "long", "sparse", "nullfirst", "nullthird", "nullsixth",
    "notdict">>

SchemeList(k, variant) == [i \in 1..k |-> SchemeRecord(i, variant)]

HttpResponse(status, body) ==
  [kind |-> "response", exc |-> "", status |-> status, body |-> body]
TransportError(e) ==
  [kind |-> "error", exc |-> e, status |-> 0, body |-> Value(None)]

\* What requests.post and response.json() can do, other than return a list.
FixedResponses ==
  << TransportError("ConnectionError"),
     TransportError("Timeout"),
     HttpResponse(404, Value(Dict([detail |-> Str(<<"Not Found">>)]))),
     HttpResponse(500, Value(Dict([schemes |-> List(SchemeList(2, "short"))]))),
     HttpResponse(HttpOk, Raised("JSONDecodeError")),
     HttpResponse(HttpOk, Value(List(SchemeList(1, "short")))),
     HttpResponse(HttpOk, Value(Dict([count |-> Str(<<"0">>)]))),
     HttpResponse(HttpOk, Value(Dict([schemes |-> None]))) >>

\* Status 200 with a list of k records, k up to MaxSchemes, in each shape.
ListResponse(n) ==
  LET k == n \div Len(Variants)
      variant == Variants[(n % Len(Variants)) + 1]
  IN HttpResponse(HttpOk, Value(Dict([schemes |-> List(SchemeList(k, variant))])))

Responses ==
  FixedResponses
    \o [n \in 1..((MaxSchemes + 1) * Len(Variants)) |-> ListResponse(n - 1)]

Queries == {<<"What schemes help farmers?">>, <<"pension">>}
Languages == {<<"English">>, <<"Hindi">>}

\* The generative model: it answers, fails, or answers with no usable text
\* (response.text then raises).
ModelOutcomes == {"ok", "error", "blocked"}

GenerateContent(model, outcome) ==
  CASE outcome = "ok" -> Value(Str(<<"<answer of the " \o model \o " model>">>))
    [] outcome = "error" -> Raised("GoogleAPIError")
    [] OTHER -> Raised("ValueError")

\* ----------------------------------------------------------- prompt composer

\* The scheme Q&A template (lines 31-50).
SchemePrompt(query, language, schemes, gov_context) ==
  <<"You are an Indian Government Services Assistant. ... User Query: ">>
    \o query \o <<"Language: ">> \o language
    \o <<"Relevant Schemes Found:">> \o schemes
    \o <<"Government Services Context:">> \o gov_context
    \o <<"Instructions: ... Respond in ">> \o language

\* The generic form help template (lines 57-70).
FormHelpPrompt(fields, language) ==
  <<"You are a government form filling assistant for India. Form Fields: ">>
    \o fields \o <<"Language: ">> \o language
    \o <<"Provide step-by-step guidance ... Be helpful and explain in simple ">>
    \o language

\* ------------------------------------------------------------------- state

Pending == [k |-> "pending", v |-> None]
NoCalls == <<>>
Outbound(to, failed) == [to |-> to, failed |-> failed]
NoResponse == TransportError("")
NoImage == [mode |-> "", ok |-> FALSE]

Init ==
  /\ pc = "idle"
  /\ op = ""
  /\ args = [query |-> <<>>, language |-> <<>>]
  /\ relevant_schemes = None
  /\ image = NoImage
  /\ prompt = None
  /\ result = Pending
  /\ calls = NoCalls
  /\ attempts = <<>>
  /\ backendOutcome = NoResponse
  /\ excSource = ""

\* A call of an entry point: a fresh invocation.
Enter(name, a, next) ==
  /\ op' = name
  /\ args' = a
  /\ pc' = next
  /\ relevant_schemes' = None
  /\ image' = NoImage
  /\ prompt' = None
  /\ result' = Pending
  /\ calls' = NoCalls
  /\ attempts' = <<>>
  /\ backendOutcome' = NoResponse
  /\ excSource' = ""

\* ------------------------------------------------- simple Q&A / universal help

\* A call site that turns an exception into a canned answer.
PropagateCanned(r) ==
  IF IsRaised(r) THEN Value(Str(<<"Sorry, I could not answer that.">>)) ELSE r

\* An exception of an unguarded statement leaves the function as it is.
Propagate(r) == r

CallSearchSchemes ==
  /\ pc = "idle"
  /\ \E q \in Queries, l \in Languages :
       Enter("search_schemes", [query |-> q, language |-> l], "ss_retrieve")

\* get_universal_help is search_schemes(query, language) (line 220).
CallGetUniversalHelp ==
  /\ pc = "idle"
  /\ \E q \in Queries, l \in Languages :
       Enter("get_universal_help", [query |-> q, language |-> l], "ss_retrieve")

\* search_schemes line 26: one request to the backend.
SsRetrieve ==
  /\ pc = "ss_retrieve"
  /\ \E n \in 1..Len(Responses) :
       LET r == GetVectorizedSchemes(Responses[n])
       IN /\ backendOutcome' = Responses[n]
          /\ calls' = Append(calls, Outbound("backend",
                              Responses[n].kind = "error"
                                \/ Responses[n].status # HttpOk))
          /\ IF IsRaised(r)
             THEN /\ result' = Propagate(r)
                  /\ pc' = "done"
                  /\ UNCHANGED relevant_schemes
             ELSE /\ relevant_schemes' = r.v
                  /\ pc' = "ss_generate"
                  /\ UNCHANGED result
  /\ UNCHANGED <<op, args, image, prompt, attempts, excSource>>

\* search_schemes lines 29-53: compose the prompt, one text model call.
SsGenerate ==
  /\ pc = "ss_generate"
  /\ prompt' = Str(SchemePrompt(args.query, args.language, relevant_schemes.v,
                               GovernmentServicesContext))
  /\ \E outcome \in ModelOutcomes :
       LET r == GenerateContent("text", outcome)
       IN /\ calls' = Append(calls, Outbound("text", IsRaised(r)))
          /\ result' = Propagate(r)
  /\ pc' = "done"
  /\ UNCHANGED <<op, args, relevant_schemes, image, attempts, backendOutcome,
                 excSource>>

FieldLists == {<<"['Name', 'Age']">>, <<"[]">>}

CallGenerateFormHelp ==
  /\ pc = "idle"
  /\ \E f \in FieldLists, l \in Languages :
       Enter("generate_form_help", [fields |-> f, language |-> l], "gfh_generate")

\* generate_form_help lines 57-72.
GfhGenerate ==
  /\ pc = "gfh_generate"
  /\ prompt' = Str(FormHelpPrompt(args.fields, args.language))
  /\ \E outcome \in ModelOutcomes :
       LET r == GenerateContent("text", outcome)
       IN /\ calls' = Append(calls, Outbound("text", IsRaised(r)))
          /\ result' = Propagate(r)
  /\ pc' = "done"
  /\ UNCHANGED <<op, args, relevant_schemes, image, attempts, backendOutcome,
                 excSource>>

\* ------------------------------------------------ text-grounded form help

LowerCase == <<"a", "b", "c", "d", "e", "f", "g", "h", "i", "j", "k", "l", "m",
               "n", "o", "p", "q", "r", "s", "t", "u", "v", "w", "x", "y", "z">>
UpperCase == <<"A", "B", "C", "D", "E", "F", "G", "H", "I", "J", "K", "L", "M",
               "N", "O", "P", "Q", "R", "S", "T", "U", "V", "W", "X", "Y", "Z">>

IndexIn(c, alphabet) == CHOOSE i \in 1..Len(alphabet) : alphabet[i] = c
IsLower(c) == \E i \in 1..Len(LowerCase) : LowerCase[i] = c
IsUpper(c) == \E i \in 1..Len(UpperCase) : UpperCase[i] = c
IsCased(c) == IsLower(c) \/ IsUpper(c)
ToUpper(c) == IF IsLower(c) THEN UpperCase[IndexIn(c, LowerCase)] ELSE c
ToLower(c) == IF IsUpper(c) THEN LowerCase[IndexIn(c, UpperCase)] ELSE c

\* str.replace(old, new) for single characters.
Replace(s, old, new) == [i \in 1..Len(s) |-> IF s[i] = old THEN new ELSE s[i]]

\* str.title(): a cased character is upper-cased when it begins a run of
\* cased characters and lower-cased inside one.
Title(s) ==
  [i \in 1..Len(s) |->
     IF i > 1 /\ IsCased(s[i - 1]) THEN ToLower(s[i]) ELSE ToUpper(s[i])]

\* The field list of the OCR-grounded prompt (lines 78-82).  Iterating a
\* value that is no list, or calling .get on an entry that is no mapping,
\* raises.
FieldsText(detected_fields) ==
  IF detected_fields.t # "list" THEN Raised("TypeError")
  ELSE IF \E i \in 1..Len(detected_fields.v) : detected_fields.v[i].t # "dict"
  THEN Raised("AttributeError")
  ELSE IF Len(detected_fields.v) = 0
  THEN Value(Str(<<"No specific fields detected">>))
  ELSE Value(Str(Join(
         [i \in 1..Len(detected_fields.v) |->
            <<"- ">>
              \o Format(DictGet(detected_fields.v[i], "field", Str(<<"Unknown">>)))
              \o <<": ">>
              \o Format(DictGet(detected_fields.v[i], "type", Str(<<"text">>)))
              \o <<" field">>],
         <<"\n">>)))

\* Lines 78-105: everything generate_comprehensive_form_help does before its
\* try block.
ComprehensivePrompt(extracted_text, detected_fields, document_type, language) ==
  LET fields_text == FieldsText(detected_fields)
      text == Slice(extracted_text, ExtractedTextBudget)
  IN IF IsRaised(fields_text) THEN fields_text
     ELSE IF IsRaised(text) THEN text
     ELSE Value(Str(
            <<"You are an expert Indian government form filling assistant. ... Document Type: ">>
              \o Format(document_type)
              \o <<"Extracted Text: ">> \o Format(text.v) \o <<"...">>
              \o <<"DETECTED FORM FIELDS:">> \o Format(fields_text.v)
              \o <<"TASK: Provide comprehensive form filling guidance in ">>
              \o language
              \o <<"Include: ... Make it practical and actionable. Use simple ">>
              \o language))

\* A fallback that has the generic line for every field.
FieldHelpGeneric(field) ==
  <<"- ">> \o Format(DictGet(field, "field", Str(<<"Field">>)))
    \o <<": Fill accurately">>

\* The canned line of one field (lines 172-184).
FieldHelp(field) ==
  LET field_type == DictGet(field, "type", Str(<<"text">>))
  IN CASE field_type = Str(<<"name">>) ->
            <<"- Full Name: Write your complete name as per official documents">>
       [] field_type = Str(<<"email">>) ->
            <<"- Email: Provide a valid email address">>
       [] field_type = Str(<<"phone">>) ->
            <<"- Phone: 10-digit mobile number">>
       [] field_type = Str(<<"address">>) ->
            <<"- Address: Complete postal address with PIN code">>
       [] field_type = Str(<<"date">>) ->
            <<"- Date: Use DD/MM/YYYY format">>
       [] OTHER ->
            <<"- ">> \o Format(DictGet(field, "field", Str(<<"Field">>)))
              \o <<": Fill accurately">>

\* _generate_simple_form_help
GenerateSimpleFormHelp(fields, doc_type, language) ==
  IF doc_type.t # "str" THEN Raised("AttributeError")
  ELSE IF fields.t # "list" THEN Raised("TypeError")
  ELSE IF \E i \in 1..Len(fields.v) : fields.v[i].t # "dict"
  THEN Raised("AttributeError")
  ELSE Value(Str(Join(
         << <<"Form Type: ">> \o Title(Replace(doc_type.v, "_", " ")),
            <<"\nRequired Information:">> >>
           \o [i \in 1..Len(fields.v) |-> FieldHelp(fields.v[i])]
           \o << <<"\nGeneral Tips:">>,
                 <<"- Use black/blue pen only">>,
                 <<"- Write clearly in capital letters">>,
                 <<"- Do not leave mandatory fields blank">>,
                 <<"- Attach required documents">> >>,
         <<"\n">>)))

\* The final fallback (line 117).
StaticFormHelp(document_type) ==
  Str(<<"I can help you fill this form. Based on the analysis, this appears to be a ">>
        \o Format(document_type)
        \o <<" document. Please ensure you have all required documents ready and fill the fields carefully.">>)

FieldSamples ==
  << Dict([field |-> Str(<<"Name">>), type |-> Str(<<"name">>)]),
     Dict([field |-> Str(<<"Email">>), type |-> Str(<<"email">>)]),
     Dict([field |-> Str(<<"Mobile">>), type |-> Str(<<"phone">>)]),
     Dict([field |-> Str(<<"Address">>), type |-> Str(<<"address">>)]),
     Dict([field |-> Str(<<"DOB">>), type |-> Str(<<"date">>)]),
     Dict([field |-> Str(<<"Age">>), type |-> Str(<<"number">>)]),
     Dict([type |-> Str(<<"signature">>)]),
     Dict([field |-> Str(<<"Remarks">>)]),
     Str(<<"Name">>) >>

\* Every list of up to MaxFields sample entries, and no list at all.
FieldListOf(ixs) == List([i \in 1..Len(ixs) |-> FieldSamples[ixs[i]]])

FieldIndexLists ==
  UNION {[1..n -> 1..Len(FieldSamples)] : n \in 0..MaxFields}

ExtractedTexts ==
  << None,
     Str(<<"N", "a", "m", "e", ":", " ", "_", "_">>),
     Str(Rep("t", ExtractedTextBudget + 1)) >>

DocumentTypes ==
  << None,
     Str(<<"a", "p", "p", "l", "i", "c", "a", "t", "i", "o", "n", "_",
           "f", "o", "r", "m">>),
     Str(<<"P", "A", "N", "_", "c", "a", "r", "d", "_", "4", "9", "a">>) >>

\* detected_fields: a list of samples, or None.
DetectedFields(ixs) == IF ixs = <<0>> THEN None ELSE FieldListOf(ixs)

CallGenerateComprehensiveFormHelp ==
  /\ pc = "idle"
  /\ \E t \in 1..Len(ExtractedTexts), d \in 1..Len(DocumentTypes),
        l \in Languages, ixs \in FieldIndexLists \cup {<<0>>} :
       Enter("generate_comprehensive_form_help",
             [extracted_text |-> ExtractedTexts[t],
              detected_fields |-> DetectedFields(ixs),
              document_type |-> DocumentTypes[d], language |-> l],
             "cfh_compose")

\* Lines 78-105, outside the try block: an exception here leaves the call.
CfhCompose ==
  /\ pc = "cfh_compose"
  /\ LET r == ComprehensivePrompt(args.extracted_text, args.detected_fields,
                                  args.document_type, args.language)
     IN IF IsRaised(r)
        THEN /\ result' = Propagate(r)
             /\ pc' = "done"
             /\ UNCHANGED prompt
        ELSE /\ prompt' = r.v
             /\ pc' = "cfh_generate"
             /\ UNCHANGED result
  /\ UNCHANGED <<op, args, relevant_schemes, image, calls, attempts,
                 backendOutcome, excSource>>

\* A handler that calls the model again.
CfhOnFailureRetry == "cfh_generate"

\* Where the handler of the guarded model call goes (lines 110-114): to
\* the deterministic fallback.
CfhOnFailure == "cfh_simple"

\* Lines 107-111: the guarded text model call.
CfhGenerate ==
  /\ pc = "cfh_generate"
  /\ \E outcome \in ModelOutcomes :
       LET r == GenerateContent("text", outcome)
       IN /\ calls' = Append(calls, Outbound("text", IsRaised(r)))
          /\ attempts' = Append(attempts, [tier |-> "text_model", ok |-> ~IsRaised(r)])
          /\ IF IsRaised(r)
             THEN /\ pc' = CfhOnFailure
                  /\ UNCHANGED result
             ELSE /\ pc' = "done"
                  /\ result' = r
  /\ UNCHANGED <<op, args, relevant_schemes, image, prompt, backendOutcome,
                 excSource>>

\* Lines 113-115: the deterministic fallback, itself guarded.
CfhSimple ==
  /\ pc = "cfh_simple"
  /\ LET r == GenerateSimpleFormHelp(args.detected_fields, args.document_type,
                                     args.language)
     IN /\ attempts' = Append(attempts, [tier |-> "simple", ok |-> ~IsRaised(r)])
        /\ IF IsRaised(r)
           THEN /\ pc' = "cfh_final"
                /\ UNCHANGED result
           ELSE /\ pc' = "done"
                /\ result' = r
  /\ UNCHANGED <<op, args, relevant_schemes, image, prompt, calls,
                 backendOutcome, excSource>>

\* Lines 116-117: the static message.
CfhFinal ==
  /\ pc = "cfh_final"
  /\ attempts' = Append(attempts, [tier |-> "static", ok |-> TRUE])
  /\ result' = Value(StaticFormHelp(args.document_type))
  /\ pc' = "done"
  /\ UNCHANGED <<op, args, relevant_schemes, image, prompt, calls,
                 backendOutcome, excSource>>

\* ----------------------------------------------- image-grounded form help

\* base64.b64decode on the payloads of the model: a well-formed payload
\* decodes to its bytes, anything else is a binascii.Error.
B64Decode(payload) ==
  CASE payload = <<>> -> Value(Bytes(<<>>))
    [] payload = <<"iVBORw0KGgoAAAANSUhEUgAAAAEAAAABCAYAAAAf">> ->
         Value(Bytes(<<"PNG", "RGBA", "1x1">>))
    [] payload = <<"/9j/4AAQSkZJRgABAQAAAQABAAD/">> ->
         Value(Bytes(<<"JPEG", "RGB", "1x1">>))
    [] payload = <<"aGVsbG8gd29ybGQ=">> ->
         Value(Bytes(<<"hello world">>))
    [] OTHER -> Raised("binascii.Error")

\* Lines 127-133: the three input shapes.  A data URI is split at its first
\* comma; one without a comma does not unpack into two parts.
ImageBytes(image_data) ==
  IF IsStr(image_data) /\ Len(image_data.v) > 0 /\ image_data.v[1] = "data:image"
  THEN IF \E i \in 1..Len(image_data.v) : image_data.v[i] = ","
       THEN LET comma == CHOOSE i \in 1..Len(image_data.v) :
                           /\ image_data.v[i] = ","
                           /\ \A j \in 1..(i - 1) : image_data.v[j] # ","
            IN B64Decode(SubSeq(image_data.v, comma + 1, Len(image_data.v)))
       ELSE Raised("ValueError")
  ELSE IF IsStr(image_data) THEN B64Decode(image_data.v)
  ELSE Value(image_data)

\* Image.open(io.BytesIO(image_bytes)) (line 136): bytes that are no image
\* are refused, and so is a value that is no bytes.
ImageOpen(image_bytes) ==
  IF image_bytes.t = "bytes" /\ Len(image_bytes.v) = 3
     /\ image_bytes.v[1] \in {"PNG", "JPEG"}
  THEN Value([mode |-> image_bytes.v[2], ok |-> TRUE])
  ELSE IF image_bytes.t \in {"bytes", "None"}
  THEN Raised("UnidentifiedImageError")
  ELSE Raised("TypeError")

\* Lines 137-138.
ToRGB(img) == IF img.mode # "RGB" THEN [img EXCEPT !.mode = "RGB"] ELSE img

\* Lines 127-138: decode, load and normalise.
DecodeImage(image_data) ==
  LET image_bytes == ImageBytes(image_data)
  IN IF IsRaised(image_bytes) THEN image_bytes
     ELSE LET opened == ImageOpen(image_bytes.v)
          IN IF IsRaised(opened) THEN opened ELSE Value(ToRGB(opened.v))

\* The vision prompt (lines 140-151).
VisionPrompt(language) ==
  <<"Analyze this government form image and provide comprehensive form filling guidance in ">>
    \o language \o <<". Please identify: ... Respond in ">> \o language

\* The prompt of the text-only fallback (lines 200-210).
FallbackPrompt(language) ==
  <<"I need help analyzing a government form image for form filling guidance in ">>
    \o language \o <<". Please provide: ... Respond in ">> \o language

UnableToAnalyze ==
  Str(<<"Unable to analyze the form image. Please ensure the image is clear and try again.">>)

\* _analyze_with_fallback: the text model call and its own handler (lines
\* 196-216).
AnalyzeWithFallback(r) == IF IsRaised(r) THEN Value(UnableToAnalyze) ELSE r

\* The handler of analyze_form_image_directly (lines 160-163) around it.
FallbackOrNone(r) == IF IsRaised(r) THEN Value(None) ELSE r

\* The signature of analyze_form_image_directly (line 119) takes the image
\* and the language: no document type reaches the image path.
HasDocumentTypeHint(a) == "document_type" \in DOMAIN a

ImagePayloads ==
  << Str(<<"data:image", "/png;base64", ",", "iVBORw0KGgoAAAANSUhEUgAAAAEAAAABCAYAAAAf">>),
     Str(<<"iVBORw0KGgoAAAANSUhEUgAAAAEAAAABCAYAAAAf">>),
     Str(<<"data:image", "/jpeg;base64", ",", "/9j/4AAQSkZJRgABAQAAAQABAAD/">>),
     Str(<<"data:image", "/png;base64", "iVBORw0KGgoAAAANSUhEUgAAAAEAAAABCAYAAAAf">>),
     Str(<<"data:image", "/png;base64", ",", "aGVsbG8gd29ybGQ=">>),
     Str(<<"aGVsbG8gd29ybGQ">>),
     Str(<<>>),
     Bytes(<<"PNG", "RGBA", "1x1">>),
     Bytes(<<"JPEG", "RGB", "1x1">>),
     Bytes(<<"hello world">>),
     None >>

CallAnalyzeFormImageDirectly ==
  /\ pc = "idle"
  /\ \E i \in 1..Len(ImagePayloads), l \in Languages :
       Enter("analyze_form_image_directly",
             [image_data |-> ImagePayloads[i], language |-> l], "afid_decode")

\* A handler that runs the vision call again.
AfidOnFailureRetry == "afid_vision"

\* Where an exception of the try block goes (lines 157-161): to the
\* text-only fallback.
AfidOnFailure == "afid_except"

\* Lines 122-138, inside the try block.
AfidDecode ==
  /\ pc = "afid_decode"
  /\ LET r == DecodeImage(args.image_data)
     IN IF IsRaised(r)
        THEN /\ attempts' = Append(attempts, [tier |-> "vision", ok |-> FALSE])
             /\ excSource' = "decode"
             /\ pc' = AfidOnFailure
             /\ UNCHANGED image
        ELSE /\ image' = r.v
             /\ pc' = "afid_vision"
             /\ UNCHANGED <<attempts, excSource>>
  /\ UNCHANGED <<op, args, relevant_schemes, prompt, result, calls,
                 backendOutcome>>

\* Lines 140-155: the vision model call with [prompt, image].
AfidVision ==
  /\ pc = "afid_vision"
  /\ prompt' = Str(VisionPrompt(args.language))
  /\ \E outcome \in ModelOutcomes :
       LET r == GenerateContent("vision", outcome)
       IN /\ calls' = Append(calls, Outbound("vision", IsRaised(r)))
          /\ attempts' = Append(attempts, [tier |-> "vision", ok |-> ~IsRaised(r)])
          /\ IF IsRaised(r)
             THEN /\ excSource' = "vision"
                  /\ pc' = AfidOnFailure
                  /\ UNCHANGED result
             ELSE /\ pc' = "done"
                  /\ result' = r
                  /\ UNCHANGED excSource
  /\ UNCHANGED <<op, args, relevant_schemes, image, backendOutcome>>

\* Lines 157-163: the one handler of the try block, whatever was raised,
\* runs _analyze_with_fallback.
AfidExcept ==
  /\ pc = "afid_except"
  /\ prompt' = Str(FallbackPrompt(args.language))
  /\ \E outcome \in ModelOutcomes :
       LET r == GenerateContent("text", outcome)
           fallback == AnalyzeWithFallback(r)
       IN /\ calls' = Append(calls, Outbound("text", IsRaised(r)))
          /\ attempts' =
               Append(attempts, [tier |-> "text_only", ok |-> ~IsRaised(r)])
                 \o IF IsRaised(fallback)
                    THEN <<[tier |-> "empty", ok |-> TRUE]>>
                    ELSE <<>>
          /\ result' = FallbackOrNone(fallback)
  /\ pc' = "done"
  /\ UNCHANGED <<op, args, relevant_schemes, image, backendOutcome, excSource>>

\* The caller has the result; the service is ready for the next request.
\* Nothing of the request is kept.
Return ==
  /\ pc = "done"
  /\ pc' = "idle"
  /\ op' = ""
  /\ args' = [query |-> <<>>, language |-> <<>>]
  /\ relevant_schemes' = None
  /\ image' = NoImage
  /\ prompt' = None
  /\ result' = Pending
  /\ calls' = NoCalls
  /\ attempts' = <<>>
  /\ backendOutcome' = NoResponse
  /\ excSource' = ""

Next ==
  \/ CallSearchSchemes
  \/ CallGetUniversalHelp
  \/ SsRetrieve
  \/ SsGenerate
  \/ CallGenerateFormHelp
  \/ GfhGenerate
  \/ CallGenerateComprehensiveFormHelp
  \/ CfhCompose
  \/ CfhGenerate
  \/ CfhSimple
  \/ CfhFinal
  \/ CallAnalyzeFormImageDirectly
  \/ AfidDecode
  \/ AfidVision
  \/ AfidExcept
  \/ Return

Spec == Init /\ [][Next]_vars

\* ================================================================== claims

SearchOps == {"search_schemes", "get_universal_help"}
Comprehensive == "generate_comprehensive_form_help"
Analyze == "analyze_form_image_directly"

\* The retriever of this invocation has returned.
Retrieved == op \in SearchOps /\ pc \in {"ss_generate", "done"}

CountCalls(to) == Cardinality({i \in 1..Len(calls) : calls[i].to = to})

\* The scheme list of a response whose body could be read as an object.
SchemesOf(resp) == DictGet(resp.body.v, "schemes", List(<<>>))

BodyReadable(resp) ==
  resp.kind = "response" /\ ~IsRaised(resp.body) /\ resp.body.v.t = "dict"

\* A record the formatter can render: a mapping whose sliced fields, where
\* present, are text.
WellFormed(scheme) ==
  /\ scheme.t = "dict"
  /\ \A key \in {"overview", "eligibility", "benefits", "documents"} :
       key \in DOMAIN scheme.v => scheme.v[key].t = "str"

\* The records of a list that are rendered: min(k, 5) of them.
Rendered(schemes) == 1..Min(Len(schemes.v), TopSchemes)

\* The backend outcomes that are failures: a transport error, a status
\* other than 200, a body that cannot be read, a record among the rendered
\* ones that cannot be formatted.
BackendFailure(resp) ==
  \/ resp.kind = "error"
  \/ resp.status # HttpOk
  \/ ~BodyReadable(resp)
  \/ /\ SchemesOf(resp).t = "list"
     /\ \E i \in Rendered(SchemesOf(resp)) : ~WellFormed(SchemesOf(resp).v[i])

\* C4: _get_vectorized_schemes never raises to search_schemes, and on every
\* failure of the backend (transport error, status other than 200, an
\* exception while reading or formatting the body) it returns exactly the
\* static basic-schemes text.
C4_RetrieverFallsBackToStatic ==
  /\ (op \in SearchOps /\ CountCalls("backend") > 0) => Retrieved
  /\ Retrieved =>
       /\ relevant_schemes.t = "str"
       /\ BackendFailure(backendOutcome) =>
            relevant_schemes = Str(BasicSchemesData)

\* C4 happens: the body was read, formatting a record raised, and the
\* retriever has returned.
C4_Witness ==
  /\ Retrieved
  /\ BodyReadable(backendOutcome)
  /\ backendOutcome.status = HttpOk
  /\ BackendFailure(backendOutcome)
  /\ relevant_schemes = Str(BasicSchemesData)

\* The search succeeded and found nothing: status 200, a readable body, and
\* an empty list or no 'schemes' key.
EmptyResult(resp) ==
  /\ BodyReadable(resp)
  /\ resp.status = HttpOk
  /\ SchemesOf(resp) = List(<<>>)

\* C5: a successful search with an empty list (or without the 'schemes'
\* key) returns the "no schemes found" sentinel, which differs from the
\* static catalog; the static catalog is returned only when the search
\* failed.
C5_EmptyIsSentinelNotFallback ==
  /\ NoSchemesFound # BasicSchemesData
  /\ Retrieved =>
       /\ EmptyResult(backendOutcome) =>
            relevant_schemes = Str(NoSchemesFound)
       /\ relevant_schemes = Str(BasicSchemesData) =>
            BackendFailure(backendOutcome)

\* C5 happens: the body has no 'schemes' key and the sentinel came back.
C5_Witness ==
  /\ Retrieved
  /\ EmptyResult(backendOutcome)
  /\ "schemes" \notin DOMAIN backendOutcome.body.v.v
  /\ relevant_schemes = Str(NoSchemesFound)

\* The context read back as text: where a label stands, and what stands
\* between the n-th occurrence of a label and the n-th of the next one.
LabelPositions(text, label) == {i \in 1..Len(text) : text[i] = label}

NthPosition(positions, n) ==
  CHOOSE p \in positions : Cardinality({q \in positions : q < p}) = n - 1

RenderedField(text, n, label, next) ==
  SubSeq(text, NthPosition(LabelPositions(text, label), n) + 1,
         NthPosition(LabelPositions(text, next), n) - 1)

EntryCount(text) == Cardinality(LabelPositions(text, SchemeLabel))

\* Every entry of the context carries each of its labels once.
EntriesComplete(text) ==
  \A label \in {OverviewLabel, EligibilityLabel, BenefitsLabel, DocumentsLabel,
                EntryEnd} :
    Cardinality(LabelPositions(text, label)) = EntryCount(text)

\* A search that succeeded with a non-empty list of records the formatter
\* can render, and whose context has come back.
Formatted ==
  /\ Retrieved
  /\ BodyReadable(backendOutcome)
  /\ backendOutcome.status = HttpOk
  /\ SchemesOf(backendOutcome).t = "list"
  /\ Len(SchemesOf(backendOutcome).v) > 0
  /\ ~BackendFailure(backendOutcome)

\* The text of a field of a record, 'N/A' when the record lacks it.
SourceField(scheme, key) == Format(DictGet(scheme, key, NA))

\* Entry i of the context renders record i of the list, its overview,
\* eligibility, benefits and documents cut to their budgets.
EntryRenders(text, i, scheme) ==
  /\ RenderedField(text, i, OverviewLabel, EligibilityLabel)
       = Take(SourceField(scheme, "overview"), OverviewBudget)
  /\ RenderedField(text, i, EligibilityLabel, BenefitsLabel)
       = Take(SourceField(scheme, "eligibility"), EligibilityBudget)
  /\ RenderedField(text, i, BenefitsLabel, DocumentsLabel)
       = Take(SourceField(scheme, "benefits"), BenefitsBudget)
  /\ RenderedField(text, i, DocumentsLabel, EntryEnd)
       = Take(SourceField(scheme, "documents"), DocumentsBudget)

\* C6 as stated: min(k, 5) entries in the backend's order, and every
\* rendered field of an entry, the name included, cut to a declared budget
\* (none is longer than the largest budget, 200).
C6_EveryFieldTruncated ==
  Formatted =>
    LET text == relevant_schemes.v
        schemes == SchemesOf(backendOutcome)
    IN /\ EntryCount(text) = Min(Len(schemes.v), TopSchemes)
       /\ EntriesComplete(text)
       /\ \A i \in Rendered(schemes) :
            /\ EntryRenders(text, i, schemes.v[i])
            /\ Len(RenderedField(text, i, SchemeLabel, OverviewLabel))
                 <= OverviewBudget

\* C6 amended: min(k, 5) entries, entry i rendering record i of the
\* backend's list; overview, eligibility, benefits and documents are cut to
\* 200, 150, 150 and 100 characters; the name is rendered in full, whatever
\* its length.
C6_FourFieldsTruncatedNameWhole ==
  Formatted =>
    LET text == relevant_schemes.v
        schemes == SchemesOf(backendOutcome)
    IN /\ EntryCount(text) = Min(Len(schemes.v), TopSchemes)
       /\ EntriesComplete(text)
       /\ \A i \in Rendered(schemes) :
            /\ EntryRenders(text, i, schemes.v[i])
            /\ RenderedField(text, i, SchemeLabel, OverviewLabel)
                 = SourceField(schemes.v[i], "name")

\* C6 happens: more than five records, every field over its budget, and the
\* context has five entries.
C6_Witness ==
  /\ Formatted
  /\ Len(SchemesOf(backendOutcome).v) > TopSchemes
  /\ Len(SourceField(SchemesOf(backendOutcome).v[1], "documents")) > DocumentsBudget
  /\ Len(SourceField(SchemesOf(backendOutcome).v[1], "name")) > OverviewBudget
  /\ EntryCount(relevant_schemes.v) = TopSchemes

SimpleOps == SearchOps \cup {"generate_form_help"}

Done == pc = "done"

Contains(text, token) == \E i \in 1..Len(text) : text[i] = token

ModelCalls == CountCalls("text") + CountCalls("vision")

\* C7: on the simple Q&A paths a failure of the text model reaches the
\* caller as that error, after the one model call and with no canned text
\* in its place; a failure of the scheme backend is no error, and the model
\* is still called once, with the static catalog as its scheme context.
C7_ModelFailurePropagates ==
  (Done /\ op \in SimpleOps) =>
    /\ ModelCalls = 1
    /\ CountCalls("vision") = 0
    /\ calls[Len(calls)].to = "text"
    /\ calls[Len(calls)].failed <=> IsRaised(result)
    /\ IsRaised(result) => result.v \in {Str(<<"GoogleAPIError">>), Str(<<"ValueError">>)}
    /\ (op \in SearchOps /\ BackendFailure(backendOutcome)) =>
         /\ CountCalls("backend") = 1
         /\ Contains(prompt.v, BasicSchemesData[1])

\* C7 happens: the backend was unreachable and the model failed too.
C7_Witness ==
  /\ Done
  /\ op = "search_schemes"
  /\ backendOutcome.kind = "error"
  /\ Contains(prompt.v, BasicSchemesData[1])
  /\ calls[Len(calls)].failed
  /\ IsRaised(result)

\* C8 as stated: one invocation makes at most one call to the generative
\* model, text and vision together, and at most one to the scheme backend.
C8_AtMostOneModelCall ==
  /\ ModelCalls <= 1
  /\ CountCalls("backend") <= 1

\* C8 amended: one invocation makes at most one backend call, at most one
\* text model call and at most one vision model call; only
\* analyze_form_image_directly makes two model calls, the vision call that
\* failed and then the text call of its fallback; every other entry point
\* makes at most one.
C8_AtMostOneCallPerModel ==
  /\ CountCalls("backend") <= 1
  /\ CountCalls("text") <= 1
  /\ CountCalls("vision") <= 1
  /\ op # Analyze => ModelCalls <= 1
  /\ ModelCalls = 2 =>
       /\ calls[1] = Outbound("vision", TRUE)
       /\ calls[2].to = "text"
  /\ CountCalls("backend") = 1 => op \in SearchOps

\* C8 happens: the image path has called the vision model and then the
\* text model.
C8_Witness ==
  /\ Done
  /\ op = Analyze
  /\ CountCalls("vision") = 1
  /\ CountCalls("text") = 1

\* The tiers of the two fallback chains, in order.
Chain ==
  IF op = Comprehensive THEN <<"text_model", "simple", "static">>
  ELSE IF op = Analyze THEN <<"vision", "text_only", "empty">>
  ELSE <<>>

\* C9: in both chains the tiers are attempted in order, each at most once,
\* a tier only after the one above it failed, and a tier that succeeds ends
\* the invocation with its result.
C9_TiersInOrderOnce ==
  /\ Len(attempts) <= Len(Chain)
  /\ \A i \in 1..Len(attempts) :
       /\ attempts[i].tier = Chain[i]
       /\ i < Len(attempts) => ~attempts[i].ok
  /\ (Len(attempts) > 0 /\ attempts[Len(attempts)].ok) =>
       /\ Done
       /\ result.k = "value"
  /\ op \in {Comprehensive, Analyze} =>
       ModelCalls <= Cardinality({i \in 1..Len(attempts) :
                                   attempts[i].tier
                                     \notin {"simple", "static", "empty"}})

\* C9 happens: the text model failed, the deterministic fallback failed,
\* and the static message was returned.
C9_Witness ==
  /\ Done
  /\ op = Comprehensive
  /\ Len(attempts) = 3
  /\ ~attempts[1].ok
  /\ ~attempts[2].ok
  /\ attempts[3].ok

\* C1 as stated: when the vision call fails and the text call of the
\* fallback fails too, analyze_form_image_directly returns None.
C1_NoneWhenBothFail ==
  (Done /\ op = Analyze
     /\ calls = <<Outbound("vision", TRUE), Outbound("text", TRUE)>>) =>
    result = Value(None)

\* C2 as stated: generate_comprehensive_form_help returns a string, whatever
\* its arguments and whatever the model does.
C2_AlwaysReturnsString ==
  (Done /\ op = Comprehensive) =>
    /\ result.k = "value"
    /\ result.v.t = "str"

\* A text read back line by line: the lines are what stands between the
\* "\n" separators of the join.
Newlines(text) == LabelPositions(text, "\n")

LineCount(text) == Cardinality(Newlines(text)) + 1

Line(text, j) ==
  SubSeq(text,
         IF j = 1 THEN 1 ELSE NthPosition(Newlines(text), j - 1) + 1,
         IF j = LineCount(text) THEN Len(text)
         ELSE NthPosition(Newlines(text), j) - 1)

\* The header of each document type of the model, written out.
ExpectedHeader(document_type) ==
  IF document_type = DocumentTypes[2]
  THEN <<"Form Type: ", "A", "p", "p", "l", "i", "c", "a", "t", "i", "o", "n",
         " ", "F", "o", "r", "m">>
  ELSE <<"Form Type: ", "P", "a", "n", " ", "C", "a", "r", "d", " ", "4", "9",
         "A">>

\* The guidance line the fallback owes a field, by the field's type.
Guidance(field) ==
  LET type == IF "type" \in DOMAIN field.v THEN field.v.type.v[1] ELSE "text"
      label == IF "field" \in DOMAIN field.v THEN field.v.field.v[1] ELSE "Field"
  IN CASE type = "name" ->
            <<"- Full Name: Write your complete name as per official documents">>
       [] type = "email" -> <<"- Email: Provide a valid email address">>
       [] type = "phone" -> <<"- Phone: 10-digit mobile number">>
       [] type = "address" ->
            <<"- Address: Complete postal address with PIN code">>
       [] type = "date" -> <<"- Date: Use DD/MM/YYYY format">>
       [] OTHER -> <<"- ", label, ": Fill accurately">>

\* C3: when the text model call raises, the result is the deterministic
\* fallback text: the form-type header, one guidance line per detected
\* field, in field order and chosen by the field's type, then the general
\* tips; and when that fallback raises, the static message with the
\* document type in it.
C3_DeterministicFallbackText ==
  (Done /\ op = Comprehensive /\ Len(calls) = 1 /\ calls[1].failed) =>
    LET fields == args.detected_fields.v
        n == Len(fields)
        text == result.v.v
    IN /\ result.k = "value"
       /\ result.v.t = "str"
       /\ Len(attempts) >= 2
       /\ args.document_type.t = "str" => attempts[2].ok
       /\ attempts[2].ok =>
            /\ LineCount(text) = n + 7
            /\ Line(text, 1) = ExpectedHeader(args.document_type)
            /\ Line(text, 2) = <<"\nRequired Information:">>
            /\ \A i \in 1..n : Line(text, i + 2) = Guidance(fields[i])
            /\ Line(text, n + 3) = <<"\nGeneral Tips:">>
            /\ Line(text, n + 4) = <<"- Use black/blue pen only">>
            /\ Line(text, n + 5) = <<"- Write clearly in capital letters">>
            /\ Line(text, n + 6) = <<"- Do not leave mandatory fields blank">>
            /\ Line(text, n + 7) = <<"- Attach required documents">>
       /\ ~attempts[2].ok =>
            /\ Len(text) = Len(Format(args.document_type)) + 2
            /\ text[1] = "I can help you fill this form. Based on the analysis, this appears to be a "
            /\ SubSeq(text, 2, Len(text) - 1) = Format(args.document_type)
            /\ text[Len(text)] = " document. Please ensure you have all required documents ready and fill the fields carefully."

\* C3 happens: the model failed and the fallback answered for two fields,
\* a name field and one of no known type.
C3_Witness ==
  /\ Done
  /\ op = Comprehensive
  /\ calls = <<Outbound("text", TRUE)>>
  /\ Len(attempts) = 2
  /\ attempts[2].ok
  /\ args.detected_fields = List(<<FieldSamples[1], FieldSamples[6]>>)
  /\ Contains(result.v.v,
              "- Full Name: Write your complete name as per official documents")

\* C10 as stated: when decoding or loading the image fails, the vision
\* model is not called, and the text-only fallback is attempted, once, only
\* if there is a document-type hint; without one the call returns None and
\* calls no model.
C10_DecodeErrorHandledApart ==
  (Done /\ op = Analyze /\ excSource = "decode") =>
    /\ CountCalls("vision") = 0
    /\ CountCalls("text") <= 1
    /\ ~HasDocumentTypeHint(args) =>
         /\ ModelCalls = 0
         /\ result = Value(None)

====
